---- MODULE Spec2Model ----
(***************************************************************************)
(* Model of app.py, the Streamlit client of the Beauty Contest             *)
(* commit-reveal protocol.                                                 *)
(*                                                                         *)
(* Streamlit re-runs the whole script on every widget event.  What         *)
(* survives between runs is the widget state (uni_id, number, nonce) and   *)
(* the configuration file; everything else is rebuilt by the run.  Each    *)
(* action below is one script run, triggered by one user event, including  *)
(* the blocking requests.post call and the endpoint's reply.               *)
(*                                                                         *)
(* Text is a sequence of Unicode code points.  SHA-256 is modelled as an   *)
(* uninterpreted collision-free function of its input bytes.               *)
(***************************************************************************)
EXTENDS Integers, Sequences, FiniteSets, TLC

VARIABLES
    info_txt,    \* info.txt: NoFile, or its lines
    uni_id,      \* text_input "NEOMA ID"
    number,      \* number_input "Ton nombre"
    nonce,       \* text_input "Nonce secret"
    clicked,     \* the button that triggered the last script run
    reply,       \* what requests.post returned or raised in the last run
    shown,       \* st.success / st.error messages of the last run, in order
    sent,        \* requests.post calls of the last run, in order
    built,       \* compute_sha256 calls of the last run: arguments and result
    firstBuilt   \* history: the first compute_sha256 call of the session

vars == <<info_txt, uni_id, number, nonce, clicked, reply, shown, sent, built, firstBuilt>>

----------------------------------------------------------------------------
(* Bounds and input pools *)

MaxLen == 3

\* code points: "1" = 49, "|" = 124, e-acute = 233
TextPool ==
    { <<>>, <<49>>, <<233>>, <<49, 124, 49>>, <<49, 124, 49, 124>> }

TextChoices == {s \in TextPool : Len(s) <= MaxLen}

NumberChoices == {-1, 0, 1, 100, 101}

CommitEndpoint == "https://api.example/commit"
RevealEndpoint == "https://api.example/reveal"

\* a line of info.txt after line.strip(): blank, "#..." comment, text without
\* "=", or key=value
BlankLine == [kind |-> "blank"]
CommentLine == [kind |-> "comment"]
KV(k, v) == [kind |-> "kv", key |-> k, value |-> v]

NoFile == [exists |-> FALSE, lines |-> <<>>]
File(lines) == [exists |-> TRUE, lines |-> lines]

FileChoices ==
    { NoFile,
      File(<<CommentLine, BlankLine>>),
      File(<<CommentLine, KV("COMMIT_URL", CommitEndpoint)>>),
      File(<<KV("REVEAL_URL", ""), KV("REVEAL_URL", RevealEndpoint)>>),
      File(<<KV("COMMIT_URL", CommitEndpoint), KV("REVEAL_URL", RevealEndpoint)>>),
      File(<<KV("COMMIT_URL", ""), KV("REVEAL_URL", RevealEndpoint)>>),
      File(<<KV("COMMIT_URL", CommitEndpoint), KV("REVEAL_URL", "")>>) }

StatusChoices == {101, 200, 299, 304, 400, 599, 600}
FailureChoices == {"timeout", "connection refused"}

Response(s, b) == [type |-> "response", status_code |-> s, text |-> b]
Raised(d) == [type |-> "exception", descr |-> d]
NoReply == [type |-> "none"]

ReplyChoices ==
    {Response(s, "detail") : s \in StatusChoices}
        \cup {Response(200, ""), Response(400, "")}
        \cup {Raised(d) : d \in FailureChoices}

----------------------------------------------------------------------------
(* Helpers *)

\* load_api_urls: the dict built from the lines, a later key overriding
RECURSIVE ParseLines(_, _)
ParseLines(lines, acc) ==
    IF lines = <<>> THEN acc
    ELSE LET line == Head(lines)
             next == IF line.kind = "kv"
                     THEN [k \in DOMAIN acc \cup {line.key} |->
                              IF k = line.key THEN line.value ELSE acc[k]]
                     ELSE acc
         IN ParseLines(Tail(lines), next)

EmptyDict == [k \in {} |-> ""]

load_api_urls(file) == ParseLines(file.lines, EmptyDict)

DictGet(d, k, default) == IF k \in DOMAIN d THEN d[k] ELSE default

\* lines 84-95: FileNotFoundError leaves both URLs empty
COMMIT_URL ==
    IF ~info_txt.exists THEN "" ELSE DictGet(load_api_urls(info_txt), "COMMIT_URL", "")

\* mutant: the reveal URL looked up under the commit key
REVEAL_URL_CommitKey ==
    IF ~info_txt.exists THEN "" ELSE DictGet(load_api_urls(info_txt), "COMMIT_URL", "")

REVEAL_URL ==
    IF ~info_txt.exists THEN "" ELSE DictGet(load_api_urls(info_txt), "REVEAL_URL", "")

Pipe == 124
Minus == 45
Zero == 48

RECURSIVE Digits(_)
Digits(n) == IF n < 10 THEN <<Zero + n>> ELSE Digits(n \div 10) \o <<Zero + (n % 10)>>

\* f"{number}" of an int
DecimalString(n) == IF n < 0 THEN <<Minus>> \o Digits(-n) ELSE Digits(n)

\* str.encode("utf-8") of one code point
Utf8Char(c) ==
    IF c < 128 THEN <<c>>
    ELSE IF c < 2048 THEN <<192 + (c \div 64), 128 + (c % 64)>>
    ELSE <<224 + (c \div 4096), 128 + ((c \div 64) % 64), 128 + (c % 64)>>

RECURSIVE Utf8(_)
Utf8(s) == IF s = <<>> THEN <<>> ELSE Utf8Char(Head(s)) \o Utf8(Tail(s))

\* hashlib.sha256(bytes).hexdigest(), collision-free
Sha256Hex(bytes) == [alg |-> "sha256", of |-> bytes]

\* firstBuilt before any compute_sha256 call
NoBuild ==
    [uni_id |-> <<>>, number |-> -1, nonce |-> <<>>,
     out |-> [preimage |-> <<>>, hash_hex |-> Sha256Hex(<<>>)]]

Preimage(u, n, x) == u \o <<Pipe>> \o DecimalString(n) \o <<Pipe>> \o x

\* mutant: the nonce slot of the preimage filled with the identity
compute_sha256_NoNonce(u, n, x) ==
    [preimage |-> Preimage(u, n, u), hash_hex |-> Sha256Hex(Utf8(Preimage(u, n, u)))]

\* mutant: one module-level hash object, updated by every call
compute_sha256_SharedHasher(u, n, x) ==
    [preimage |-> Preimage(u, n, x),
     hash_hex |-> Sha256Hex(IF firstBuilt = NoBuild THEN Utf8(Preimage(u, n, x))
                            ELSE Utf8(firstBuilt.out.preimage) \o Utf8(Preimage(u, n, x)))]

compute_sha256(u, n, x) ==
    [preimage |-> Preimage(u, n, x), hash_hex |-> Sha256Hex(Utf8(Preimage(u, n, x)))]

Timeout == 10

\* mutant: the digest sent under the key "hash"
commit_to_api_WrongKey(commit_url, u, commit_hash) ==
    [url |-> commit_url, json |-> [uni_id |-> u, hash |-> commit_hash], timeout |-> Timeout]

\* the requests.post call made by commit_to_api
commit_to_api(commit_url, u, commit_hash) ==
    [url |-> commit_url, json |-> [uni_id |-> u, commit |-> commit_hash], timeout |-> Timeout]

\* mutant: identity and nonce swapped in the payload
reveal_to_api_Swapped(reveal_url, u, n, x) ==
    [url |-> reveal_url, json |-> [uni_id |-> x, number |-> n, nonce |-> u], timeout |-> Timeout]

\* the requests.post call made by reveal_to_api
reveal_to_api(reveal_url, u, n, x) ==
    [url |-> reveal_url, json |-> [uni_id |-> u, number |-> n, nonce |-> x], timeout |-> Timeout]

\* mutant: only status 200 counts as success
ResponseOk_Only200(r) == r.status_code = 200

\* requests.Response.ok: raise_for_status raises for 400 <= status < 600
ResponseOk(r) == ~(400 <= r.status_code /\ r.status_code < 600)

----------------------------------------------------------------------------
(* Outcomes shown in the results area *)

Success(phase, body) == [kind |-> "Success", phase |-> phase, text |-> body]
ValidationError(phase) == [kind |-> "ValidationError", phase |-> phase]
ConfigurationError(phase) == [kind |-> "ConfigurationError", phase |-> phase]
ApiError(phase, r) ==
    [kind |-> "ApiError", phase |-> phase, status_code |-> r.status_code, text |-> r.text]
NetworkError(phase, r) == [kind |-> "NetworkError", phase |-> phase, descr |-> r.descr]

Run(sh, se, bu, re) == [shown |-> sh, sent |-> se, built |-> bu, reply |-> re]

\* mutant: a transport failure is retried once
CommitSend_Retry(u, n, x, url, r) ==
    LET out == compute_sha256(u, n, x)
        call == [uni_id |-> u, number |-> n, nonce |-> x, out |-> out]
        req == commit_to_api(url, u, out.hash_hex)
    IN IF r.type = "exception"
       THEN Run(<<NetworkError("commit", r)>>, <<req, req>>, <<call>>, r)
       ELSE IF ResponseOk(r)
       THEN Run(<<Success("commit", "")>>, <<req>>, <<call>>, r)
       ELSE Run(<<ApiError("commit", r)>>, <<req>>, <<call>>, r)

\* lines 125-147: the hash, the request and the classification of the reply
CommitSend(u, n, x, url, r) ==
    LET out == compute_sha256(u, n, x)
        call == [uni_id |-> u, number |-> n, nonce |-> x, out |-> out]
        req == commit_to_api(url, u, out.hash_hex)
    IN IF r.type = "exception"
       THEN Run(<<NetworkError("commit", r)>>, <<req>>, <<call>>, r)
       ELSE IF ResponseOk(r)
       THEN Run(<<Success("commit", "")>>, <<req>>, <<call>>, r)
       ELSE Run(<<ApiError("commit", r)>>, <<req>>, <<call>>, r)

\* mutant: the URL checked before the fields
CommitRun_UrlFirst(u, n, x, url, r) ==
    IF url = "" THEN Run(<<ConfigurationError("commit")>>, <<>>, <<>>, NoReply)
    ELSE IF u = <<>> \/ x = <<>> THEN Run(<<ValidationError("commit")>>, <<>>, <<>>, NoReply)
    ELSE CommitSend(u, n, x, url, r)

\* lines 120-147
CommitRun(u, n, x, url, r) ==
    IF u = <<>> \/ x = <<>> THEN Run(<<ValidationError("commit")>>, <<>>, <<>>, NoReply)
    ELSE IF url = "" THEN Run(<<ConfigurationError("commit")>>, <<>>, <<>>, NoReply)
    ELSE CommitSend(u, n, x, url, r)

\* lines 158-173: the request and the classification of the reply
RevealSend(u, n, x, url, r) ==
    LET req == reveal_to_api(url, u, n, x)
    IN IF r.type = "exception"
       THEN Run(<<NetworkError("reveal", r)>>, <<req>>, <<>>, r)
       ELSE IF ResponseOk(r)
       THEN Run(<<Success("reveal", r.text)>>, <<req>>, <<>>, r)
       ELSE Run(<<ApiError("reveal", r)>>, <<req>>, <<>>, r)

\* mutant: a reveal refused until a commit has been made
RevealRun_NeedsCommit(u, n, x, url, r) ==
    IF u = <<>> \/ x = <<>> THEN Run(<<ValidationError("reveal")>>, <<>>, <<>>, NoReply)
    ELSE IF url = "" THEN Run(<<ConfigurationError("reveal")>>, <<>>, <<>>, NoReply)
    ELSE IF firstBuilt = NoBuild THEN Run(<<ValidationError("reveal")>>, <<>>, <<>>, NoReply)
    ELSE RevealSend(u, n, x, url, r)

\* lines 153-173
RevealRun(u, n, x, url, r) ==
    IF u = <<>> \/ x = <<>> THEN Run(<<ValidationError("reveal")>>, <<>>, <<>>, NoReply)
    ELSE IF url = "" THEN Run(<<ConfigurationError("reveal")>>, <<>>, <<>>, NoReply)
    ELSE RevealSend(u, n, x, url, r)

MinValue == 0
MaxValue == 100

\* mutant: the widget without min_value and max_value
number_input_Unbounded(n, current) == {n}

\* st.number_input(min_value=0, max_value=100, step=1): the values the widget
\* can hold after the user enters n.  An entry outside the range is either
\* refused (the value stays) or clamped to the nearest bound.
number_input(n, current) ==
    IF MinValue <= n /\ n <= MaxValue THEN {n}
    ELSE {current, IF n < MinValue THEN MinValue ELSE MaxValue}

----------------------------------------------------------------------------
(* State machine *)

Init ==
    /\ info_txt \in FileChoices
    /\ uni_id = <<>>
    /\ number = MinValue
    /\ nonce = <<>>
    /\ clicked = "none"
    /\ reply = NoReply
    /\ shown = <<>>
    /\ sent = <<>>
    /\ built = <<>>
    /\ firstBuilt = NoBuild

\* a script run with no button pressed: the results area is empty
Rerun ==
    /\ clicked' = "none"
    /\ reply' = NoReply
    /\ shown' = <<>>
    /\ sent' = <<>>
    /\ built' = <<>>
    /\ UNCHANGED <<info_txt, firstBuilt>>

SetUniId ==
    \E s \in TextChoices :
        /\ s # uni_id
        /\ uni_id' = s
        /\ UNCHANGED <<number, nonce>>
        /\ Rerun

SetNumber ==
    \E n \in NumberChoices :
        \E v \in number_input(n, number) :
            /\ v # number
            /\ number' = v
            /\ UNCHANGED <<uni_id, nonce>>
            /\ Rerun

SetNonce ==
    \E s \in TextChoices :
        /\ s # nonce
        /\ nonce' = s
        /\ UNCHANGED <<uni_id, number>>
        /\ Rerun

CommitClicked ==
    \E r \in ReplyChoices :
        LET run == CommitRun(uni_id, number, nonce, COMMIT_URL, r)
        IN /\ clicked' = "commit"
           /\ reply' = run.reply
           /\ shown' = run.shown
           /\ sent' = run.sent
           /\ built' = run.built
           /\ firstBuilt' = IF firstBuilt = NoBuild /\ run.built # <<>>
                            THEN run.built[1] ELSE firstBuilt
           /\ UNCHANGED <<info_txt, uni_id, number, nonce>>

RevealClicked ==
    \E r \in ReplyChoices :
        LET run == RevealRun(uni_id, number, nonce, REVEAL_URL, r)
        IN /\ clicked' = "reveal"
           /\ reply' = run.reply
           /\ shown' = run.shown
           /\ sent' = run.sent
           /\ built' = run.built
           /\ UNCHANGED <<info_txt, uni_id, number, nonce, firstBuilt>>

Next == SetUniId \/ SetNumber \/ SetNonce \/ CommitClicked \/ RevealClicked

Spec == Init /\ [][Next]_vars

----------------------------------------------------------------------------
(* Claims *)

Valid == uni_id # <<>> /\ nonce # <<>>

OwnUrl == IF clicked = "commit" THEN COMMIT_URL ELSE REVEAL_URL

Kinds == {"Success", "ValidationError", "ConfigurationError", "ApiError", "NetworkError"}

\* the lines of info.txt that set key
KeyLines(key) ==
    {i \in 1..Len(info_txt.lines) :
        info_txt.lines[i].kind = "kv" /\ info_txt.lines[i].key = key}

\* key absent, empty value, or file not found
UrlMissing(key) ==
    \/ ~info_txt.exists
    \/ KeyLines(key) = {}
    \/ \E i \in KeyLines(key) :
          /\ \A j \in KeyLines(key) : j <= i
          /\ info_txt.lines[i].value = ""

HasPipe(s) == \E i \in 1..Len(s) : s[i] = Pipe

SameTriple(a, b) == a.uni_id = b.uni_id /\ a.number = b.number /\ a.nonce = b.nonce

\* C1: a commit or reveal run with an empty identity or an empty nonce shows
\* exactly ValidationError, posts no request and does not call compute_sha256,
\* whatever the endpoint configuration.
C1_ValidationFirst ==
    (clicked # "none" /\ ~Valid) =>
        /\ shown = <<ValidationError(clicked)>>
        /\ sent = <<>>
        /\ built = <<>>

C1_Witness ==
    /\ clicked = "commit"
    /\ uni_id = <<>>
    /\ nonce # <<>>
    /\ UrlMissing("COMMIT_URL")
    /\ shown = <<ValidationError("commit")>>
    /\ sent = <<>>

\* C2 (as claimed): whenever the endpoint answered, the run shows Success
\* exactly when the status is 2xx, and every other status shows ApiError with
\* that status and body.
C2_Original ==
    (clicked # "none" /\ reply.type = "response") =>
        LET twoXX == 200 <= reply.status_code /\ reply.status_code <= 299
        IN /\ shown[1].kind = "Success" <=> twoXX
           /\ ~twoXX => shown = <<ApiError(clicked, reply)>>

\* C2 (amended): whenever the endpoint answered, the run shows Success exactly
\* when the status is outside 400..599, and every 4xx or 5xx status shows
\* ApiError with that status and the body unchanged.
C2_SuccessUnlessClientOrServerError ==
    (clicked # "none" /\ reply.type = "response") =>
        LET failed == 400 <= reply.status_code /\ reply.status_code <= 599
        IN /\ Len(shown) = 1
           /\ shown[1].kind = "Success" <=> ~failed
           /\ failed =>
                 /\ shown[1].kind = "ApiError"
                 /\ shown[1].status_code = reply.status_code
                 /\ shown[1].text = reply.text

C2_Witness ==
    /\ clicked = "reveal"
    /\ reply.type = "response"
    /\ reply.status_code = 304
    /\ shown[1].kind = "Success"

\* C3: every request of a commit run goes to the commit endpoint with exactly
\* the fields uni_id and commit, uni_id being the identity entered and commit
\* the digest of identity "|" decimal(number) "|" nonce.
C3_CommitPayload ==
    clicked = "commit" =>
        \A i \in 1..Len(sent) :
            /\ sent[i].url = COMMIT_URL
            /\ DOMAIN sent[i].json = {"uni_id", "commit"}
            /\ sent[i].json.uni_id = uni_id
            /\ sent[i].json.commit =
                  Sha256Hex(Utf8(uni_id \o <<Pipe>> \o DecimalString(number)
                                     \o <<Pipe>> \o nonce))

C3_Witness ==
    /\ clicked = "commit"
    /\ Len(sent) = 1
    /\ uni_id = <<233>>
    /\ number = MaxValue
    /\ sent[1].json.commit = Sha256Hex(<<195, 169, 124, 49, 48, 48, 124, 49>>)

\* C4: every request of a reveal run goes to the reveal endpoint with exactly
\* the fields uni_id, number and nonce holding the raw values entered; a reveal
\* run never calls compute_sha256.
C4_RevealPayload ==
    clicked = "reveal" =>
        /\ built = <<>>
        /\ \A i \in 1..Len(sent) :
              /\ sent[i].url = REVEAL_URL
              /\ sent[i].json = [uni_id |-> uni_id, number |-> number, nonce |-> nonce]

C4_Witness ==
    /\ clicked = "reveal"
    /\ Len(sent) = 1
    /\ nonce = <<49, 124, 49>>
    /\ sent[1].json.nonce = <<49, 124, 49>>

\* C5: with identity and nonce filled in, a run whose own URL is missing (key
\* absent, empty value, or no info.txt) shows ConfigurationError and posts
\* nothing, and a run whose own URL is present posts its request whatever the
\* other phase's URL is.
C5_OwnUrlOnly ==
    (clicked # "none" /\ Valid) =>
        LET key == IF clicked = "commit" THEN "COMMIT_URL" ELSE "REVEAL_URL"
        IN /\ UrlMissing(key) => (shown = <<ConfigurationError(clicked)>> /\ sent = <<>>)
           /\ ~UrlMissing(key) => Len(sent) = 1

C5_Witness ==
    /\ clicked = "reveal"
    /\ Valid
    /\ UrlMissing("COMMIT_URL")
    /\ ~UrlMissing("REVEAL_URL")
    /\ Len(sent) = 1

\* C6 (as claimed): two compute_sha256 calls whose triples differ in at least
\* one field return different preimages and different commitments.
C6_Original ==
    (built # <<>> /\ firstBuilt # NoBuild /\ ~SameTriple(firstBuilt, built[1])) =>
        /\ firstBuilt.out.preimage # built[1].out.preimage
        /\ firstBuilt.out.hash_hex # built[1].out.hash_hex

\* C6 (amended): two compute_sha256 calls whose triples differ in at least one
\* field return different preimages and different commitments, provided the
\* two identities are equal or neither contains "|"; the nonce may contain it.
C6_DistinctPreimages ==
    (/\ built # <<>>
     /\ firstBuilt # NoBuild
     /\ ~SameTriple(firstBuilt, built[1])
     /\ \/ firstBuilt.uni_id = built[1].uni_id
        \/ ~HasPipe(firstBuilt.uni_id) /\ ~HasPipe(built[1].uni_id)) =>
        /\ firstBuilt.out.preimage # built[1].out.preimage
        /\ firstBuilt.out.hash_hex # built[1].out.hash_hex

C6_Witness ==
    /\ built # <<>>
    /\ firstBuilt.uni_id = <<49, 124, 49>>
    /\ built[1].uni_id = <<49, 124, 49>>
    /\ firstBuilt.number = built[1].number
    /\ firstBuilt.nonce = <<49>>
    /\ built[1].nonce = <<49, 124, 49>>
    /\ firstBuilt.out.preimage # built[1].out.preimage

C8_NumberInRange ==
    /\ number \in MinValue..MaxValue
    /\ \A i \in 1..Len(built) : built[i].number \in MinValue..MaxValue
    /\ firstBuilt # NoBuild => firstBuilt.number \in MinValue..MaxValue
    /\ clicked = "reveal" =>
          \A i \in 1..Len(sent) : sent[i].json.number \in MinValue..MaxValue

C8_Witness ==
    /\ clicked = "commit"
    /\ built # <<>>
    /\ built[1].number = MaxValue
    /\ firstBuilt.number = MinValue

\* C9: what a run shows and posts is decided by its own inputs, its own URL
\* and the endpoint's reply alone: with identity, nonce and URL present it
\* always posts one request, whatever happened earlier in the session.
C9_Stateless ==
    clicked # "none" =>
        /\ Len(shown) = 1
        /\ ~Valid => (shown[1].kind = "ValidationError" /\ sent = <<>>)
        /\ (Valid /\ OwnUrl = "") => (shown[1].kind = "ConfigurationError" /\ sent = <<>>)
        /\ (Valid /\ OwnUrl # "") =>
              /\ Len(sent) = 1
              /\ reply.type # "none"
              /\ shown[1].kind =
                    IF reply.type = "exception" THEN "NetworkError"
                    ELSE IF 400 <= reply.status_code /\ reply.status_code <= 599
                    THEN "ApiError"
                    ELSE "Success"

C9_Witness ==
    /\ clicked = "reveal"
    /\ firstBuilt = NoBuild
    /\ Len(sent) = 1
    /\ shown[1].kind = "Success"

\* C10: a run posts at most one request and shows exactly one outcome of the
\* five kinds; a transport failure shows NetworkError with the failure's
\* description; an ApiError or NetworkError run has posted exactly one
\* request, and a run without a button press posts none.
C10_OneRequestOneOutcome ==
    /\ clicked = "none" => (sent = <<>> /\ shown = <<>>)
    /\ clicked # "none" =>
          /\ Len(sent) <= 1
          /\ Len(shown) = 1
          /\ shown[1].kind \in Kinds
          /\ reply.type = "exception" => shown = <<NetworkError(clicked, reply)>>
          /\ shown[1].kind \in {"ApiError", "NetworkError"} => Len(sent) = 1

C10_Witness ==
    /\ clicked = "commit"
    /\ shown = <<[kind |-> "NetworkError", phase |-> "commit", descr |-> "timeout"]>>
    /\ Len(sent) = 1

====
